---- MODULE Spec2Model ----
(***************************************************************************)
(* A model of the kqueue reactor of playground-future-2.0:                 *)
(*   src/future.rs   Interest, Waitable, the Future trait (poll / take)    *)
(*   src/tcp.rs      AsyncTcpStream, ReadFuture, CloseFuture               *)
(*   src/runtime.rs  Poller (register_read, wait, unregister_read,         *)
(*                   events, block_on)                                     *)
(* The kernel event queue and the socket are the environment.  One stream  *)
(* and one Poller are modelled.  Spec drives futures through block_on and *)
(* calls the Poller's public methods register_read, wait, unregister_read  *)
(* itself between invocations; SpecFuture calls poll and take of a future  *)
(* directly, in any order.                                                 *)
(***************************************************************************)
EXTENDS Naturals, Sequences, FiniteSets

(* ---- bounds of the model ---- *)
MaxData == 2        \* bytes the peer sends in a run
MaxBuf == 1         \* largest read buffer handed to AsyncTcpStream::read
MaxRuns == 2        \* block_on invocations in a run
MaxSpurious == 2    \* readiness events the kernel delivers with nothing to read
MaxFaults == 1      \* kevent calls the kernel fails in a run
MaxCalls == 4       \* direct poll/take calls on one future (SpecFuture)
MaxDirect == 1      \* direct calls of register_read / wait / unregister_read in a run

ClientFd == "sock"                       \* the stream's raw descriptor
SocketErrors == {"ECONNRESET", "EPIPE"}  \* non-would-block read errors
KernelErrors == {"EINTR", "ENOMEM"}      \* kevent failures of the environment
ChangeErrors == {"ENOMEM"}               \* errors with which the kernel rejects an EV_ADD

VARIABLES
  avail,      \* bytes waiting in the socket's receive buffer
  arrived,    \* bytes the peer has sent so far
  eof,        \* the peer has shut the connection down
  sockErr,    \* pending socket error ("none" when there is none)
  open,       \* the AsyncTcpStream (and its descriptor) is still alive
  interest,   \* kernel interest set of the Poller's kqueue: descriptors with a Read filter
  events,     \* Poller.events: descriptors of the delivered kqueue events
  fut,        \* the future in hand: "none", "read" or "close"
  output,     \* ReadFuture.output
  state,      \* CloseFuture.state
  buflen,     \* length of ReadFuture.buffer
  pc,         \* position of the thread inside block_on
  should_wait,\* block_on's local
  pending,    \* waitables the iterator returned by poll still has to yield
  ret,        \* what the last block_on invocation returned
  took,       \* what the last take() call returned
  everTook,   \* a take() of the future in hand has returned a populated result
  lastRead,   \* outcome of the last non-blocking read attempt
  kerr,       \* error of the failed kevent call of this invocation ("none")
  nPoll, nTake, nWait, nReg, nUnreg, \* calls made in this invocation
  nRead,      \* read attempts of this invocation that did not would-block
  bytesRead,  \* bytes read attempts have consumed from the stream, in total
  bytesReturned, \* bytes block_on has reported to its callers, in total
  closedRegistered, \* the descriptor was closed while the kqueue still held its filter
  driven,     \* kind of the future of the current or last invocation
  readDone,   \* a block_on of a read future on this stream has returned Ok
  lastReady,  \* the `ready` argument of the last poll() call
  yielded,    \* the waitables the last poll() call returned
  evSrc,      \* which kevent call filled self.events: "none", "register", "wait"
              \* (both inside block_on) or "direct"
  evPolled,   \* the content of self.events has been passed to a poll()
  dpc,        \* the Poller method the program itself sits in: "none", "register_read", "wait"
  dres,       \* what the last direct Poller call returned
  direct,     \* direct Poller calls made so far
  runs, spurious, faults, calls

vars == <<avail, arrived, eof, sockErr, open, interest, events, fut, output, state,
          buflen, pc, should_wait, pending, ret, took, everTook, lastRead, kerr,
          nPoll, nTake, nWait, nReg, nUnreg, nRead, bytesRead, bytesReturned,
          closedRegistered, driven, readDone, lastReady, yielded, evSrc, evPolled,
          dpc, dres, direct, runs, spurious, faults, calls>>

dirVars == <<dpc, dres, direct>>
envVars == <<avail, arrived, eof, sockErr>>
pollHist == <<lastReady, yielded>>
evHist == <<evSrc, evPolled>>
countVars == <<nPoll, nTake, nWait, nReg, nUnreg>>

(* ---- values ---- *)
R(tag, n, e) == [tag |-> tag, n |-> n, e |-> e]
NoneV == R("None", 0, "none")            \* Option::None
OkV(n) == R("Ok", n, "none")             \* Some(Ok(n)) / Ok(n)
ErrV(e) == R("Err", 0, e)                \* Some(Err(e)) / Err(e)
UnitV == R("Unit", 0, "none")            \* Some(())
WouldBlock == R("WouldBlock", 0, "none") \* Err(e), e.kind() == WouldBlock
NotCalled == R("NotCalled", 0, "none")   \* history: no call yet

Waitable(fd, i) == [fd |-> fd, interest |-> i]   \* Waitable::Fd(fd, interest)

Min(a, b) == IF a < b THEN a ELSE b

(* ---- the socket: TcpStream::read in non-blocking mode ---- *)
\* buffered data is handed over before a pending error, the error before end of stream
SockRead(av, err, isEof, len) ==
  IF av > 0 THEN OkV(Min(av, len))
  ELSE IF err # "none" THEN ErrV(err)
  ELSE IF isEof THEN OkV(0)
  ELSE WouldBlock

\* EVFILT_READ on a socket: data, end of stream or a pending error
ReadReady == avail > 0 \/ eof \/ sockErr # "none"

(* ---- ReadFuture ---- *)
\* faulty variant of ReadAttempt: the read is skipped unless `ready` names the descriptor
ReadAttemptWhenReady(ready) ==
  IF \E i \in DOMAIN ready : ready[i] = Waitable(ClientFd, "Read")
  THEN SockRead(avail, sockErr, eof, buflen)
  ELSE WouldBlock

\* ReadFuture::poll, the read attempt: made on every call, `_ready` is not looked at
ReadAttempt(ready) == SockRead(avail, sockErr, eof, buflen)

\* faulty variants of ReadPollOutput: the error arm forgets to store; the
\* would-block guard is missing
ReadPollOutputDropsError(out, r) == IF r.tag = "Ok" THEN r ELSE out
ReadPollOutputStoresWouldBlock(out, r) == r

\* ReadFuture::poll, the field `output` after the read attempt returned r
ReadPollOutput(out, r) == IF r.tag = "WouldBlock" THEN out ELSE r

\* faulty variant of ReadPollWaitables: Read interest is requested after every attempt
ReadPollWaitablesAlways(fd, r) == <<Waitable(fd, "Read")>>

\* ReadFuture::poll, the iterator it returns
ReadPollWaitables(fd, r) ==
  IF r.tag = "WouldBlock" THEN <<Waitable(fd, "Read")>> ELSE <<>>

\* ReadFuture::take: Option::take of `output`
ReadTakeResult(out) == out
ReadTakeOutput(out) == NoneV

(* ---- CloseFuture ---- *)
\* faulty variant of ClosePollState: the Pending arm forgets the transition
ClosePollStateStuck(s) == s

\* CloseFuture::poll, the next state
ClosePollState(s) == IF s = "Pending" THEN "Closed" ELSE s

\* CloseFuture::poll, the iterator it returns
ClosePollWaitables(fd, s) ==
  IF s = "Pending" THEN <<Waitable(fd, "Close")>> ELSE <<>>

\* CloseFuture::take
CloseTakeResult(s) == IF s = "Closed" THEN UnitV ELSE NoneV
CloseTakeState(s) == IF s = "Closed" THEN "Completed" ELSE s

(* ---- the Future trait, dispatched on the future in hand ---- *)
PollWaitables(r) ==
  IF fut = "read" THEN ReadPollWaitables(ClientFd, r)
  ELSE ClosePollWaitables(ClientFd, state)

TakeResult == IF fut = "read" THEN ReadTakeResult(output) ELSE CloseTakeResult(state)

(* ---- Poller ---- *)
\* Poller::events: every delivered event is a Read filter event
EventsAsWaitables(evs) == [i \in DOMAIN evs |-> Waitable(evs[i], "Read")]

\* the interest set after the kernel delivered an event for fd: the filter was added
\* with EventFlags::ADD alone, so it stays
AfterDelivery(reg, fd) == reg

\* faulty variant of KeventAdd: the change is not submitted
KeventAddNothing(reg, fd) == reg

\* kevent with an EV_ADD change for Read(fd)
KeventAdd(reg, fd) == reg \cup {fd}

\* kevent with an EV_DELETE change for Read(fd) and no room for events:
\* deleting a filter that is not there fails with ENOENT
KeventDelete(reg, fd) ==
  IF fd \in reg THEN [err |-> "none", reg |-> reg \ {fd}]
  ELSE [err |-> "ENOENT", reg |-> reg]

\* self.events.clear()
ClearedEvents(evs) == <<>>

\* faulty variant of Try: the result of the Poller call is discarded
TryIgnores(err, next) == next

\* the `?` operator after a Poller call inside block_on: where control goes
Try(err, next) == IF err = "none" THEN next ELSE "idle"

\* faulty variant of AfterClear: the loop never blocks
AfterClearNeverWaits(sw) == "take"

\* block_on's `match should_wait` after events.clear()
AfterClear(sw) == IF sw THEN "wait" ELSE "take"

\* faulty variant of BlockOnReturn: the None arm returns instead of panicking
BlockOnReturnNoPanic(t) == [kind |-> "Ok", val |-> t, err |-> "none"]

\* faulty variant of BlockOnReturn: returns what a second take() gives
BlockOnReturnTakesTwice(t) == [kind |-> "Ok", val |-> NoneV, err |-> "none"]

\* block_on's `match fut.take()`
BlockOnReturn(t) ==
  IF t.tag = "None" THEN [kind |-> "Panic", val |-> NoneV, err |-> "none"]
  ELSE [kind |-> "Ok", val |-> t, err |-> "none"]

RetNone == [kind |-> "None", val |-> NoneV, err |-> "none"]
RetErr(e) == [kind |-> "Err", val |-> NoneV, err |-> e]

(* ---- initial state: a connected stream, an open Poller, nothing sent yet ---- *)
Init ==
  /\ avail = 0 /\ arrived = 0 /\ eof = FALSE /\ sockErr = "none"
  /\ open = TRUE
  /\ interest = {}
  /\ events = <<>>
  /\ fut = "none" /\ output = NoneV /\ state = "Pending" /\ buflen = 0
  /\ pc = "idle" /\ should_wait = FALSE /\ pending = <<>>
  /\ ret = RetNone /\ took = NotCalled /\ everTook = FALSE
  /\ lastRead = NotCalled /\ kerr = "none"
  /\ nPoll = 0 /\ nTake = 0 /\ nWait = 0 /\ nReg = 0 /\ nUnreg = 0 /\ nRead = 0
  /\ bytesRead = 0 /\ bytesReturned = 0
  /\ closedRegistered = FALSE /\ driven = "none" /\ readDone = FALSE
  /\ lastReady = <<>> /\ yielded = <<>> /\ evSrc = "none" /\ evPolled = FALSE
  /\ dpc = "none" /\ dres = NotCalled /\ direct = 0
  /\ runs = 0 /\ spurious = 0 /\ faults = 0 /\ calls = 0


(* ---- the future in hand: poll and take, as block_on or a direct caller runs them ---- *)
\* Future::poll(ready) of the future in hand; `ready` is not read by either future
FuturePoll(ready) ==
  LET r == ReadAttempt(ready) IN
  /\ pending' = PollWaitables(r)
  /\ lastReady' = ready
  /\ yielded' = PollWaitables(r)
  /\ nPoll' = nPoll + 1
  /\ IF fut = "read"
     THEN /\ output' = ReadPollOutput(output, r)
          /\ lastRead' = r
          /\ nRead' = IF r.tag = "WouldBlock" THEN nRead ELSE nRead + 1
          /\ avail' = avail - r.n
          /\ bytesRead' = bytesRead + r.n
          /\ sockErr' = IF r.tag = "Err" THEN "none" ELSE sockErr
          /\ eof' = (eof \/ r.tag = "Err")
          /\ UNCHANGED state
     ELSE /\ state' = ClosePollState(state)
          /\ UNCHANGED <<output, lastRead, nRead, avail, bytesRead, sockErr, eof>>

\* Future::take() of the future in hand
FutureTake ==
  /\ took' = TakeResult
  /\ everTook' = (everTook \/ TakeResult.tag # "None")
  /\ nTake' = nTake + 1
  /\ IF fut = "read"
     THEN output' = ReadTakeOutput(output) /\ UNCHANGED state
     ELSE state' = CloseTakeState(state) /\ UNCHANGED output

\* the future goes out of scope; a CloseFuture owns the stream, whose descriptor is
\* closed with it (the kernel then forgets the descriptor's filters)
DropFuture(reg) ==
  /\ fut' = "none"
  /\ open' = (open /\ fut # "close")
  /\ closedRegistered' = (closedRegistered \/ (fut = "close" /\ ClientFd \in reg))
  /\ interest' = IF fut = "close" THEN reg \ {ClientFd} ELSE reg

NewFuture(kind, len) ==
  /\ pc = "idle" /\ dpc = "none" /\ open /\ fut = "none" /\ runs < MaxRuns
  /\ fut' = kind /\ buflen' = len /\ driven' = kind
  /\ output' = NoneV /\ state' = "Pending"
  /\ runs' = runs + 1
  /\ ret' = RetNone /\ took' = NotCalled /\ everTook' = FALSE
  /\ lastRead' = NotCalled /\ kerr' = "none"
  /\ nPoll' = 0 /\ nTake' = 0 /\ nWait' = 0 /\ nReg' = 0 /\ nUnreg' = 0 /\ nRead' = 0
  /\ calls' = 0 /\ pending' = <<>> /\ should_wait' = FALSE
  /\ lastReady' = <<>> /\ yielded' = <<>>
  /\ UNCHANGED <<dirVars, evHist, envVars, open, interest, events, bytesRead, bytesReturned,
                 closedRegistered, readDone, spurious, faults>>

(* ---- Poller::block_on ---- *)
\* poller.block_on(client.read(&mut buf))
BlockOnRead(len) == NewFuture("read", len) /\ pc' = "poll"

\* poller.block_on(client.disconnect())
BlockOnDisconnect == NewFuture("close", 0) /\ pc' = "poll"

\* top of the loop: should_wait = false; fut.poll(&self.events())
Poll ==
  /\ pc = "poll"
  /\ FuturePoll(EventsAsWaitables(events))
  /\ should_wait' = FALSE
  /\ evPolled' = (events # <<>>)
  /\ pc' = "for"
  /\ UNCHANGED <<dirVars, evSrc, driven, readDone, arrived, open, interest, events, fut, buflen, ret, took, everTook, kerr,
                 nTake, nWait, nReg, nUnreg, bytesReturned, closedRegistered,
                 runs, spurious, faults, calls>>

\* block_on returns Err(e) out of a `?`: the future is dropped
ReturnErr(e, reg) ==
  /\ ret' = RetErr(e)
  /\ DropFuture(reg)

\* Waitable::Fd(fd, Interest::Read): should_wait = true; register_read submits the
\* EV_ADD change and then sits in kevent (room for one event, no timeout); the event
\* list handed to kevent is emptied on entering the call
Register ==
  /\ pc = "for" /\ pending # <<>> /\ Head(pending).interest = "Read"
  /\ should_wait' = TRUE
  /\ interest' = KeventAdd(interest, Head(pending).fd)
  /\ nReg' = nReg + 1
  /\ pending' = Tail(pending)
  /\ pc' = "register_read"
  /\ events' = <<>> /\ evSrc' = "none" /\ evPolled' = FALSE
  /\ UNCHANGED <<dirVars, pollHist, driven, readDone, envVars, open, fut, output, state, buflen, ret, took, everTook,
                 lastRead, kerr, nPoll, nTake, nWait, nUnreg, nRead, bytesRead,
                 bytesReturned, closedRegistered, runs, spurious, faults, calls>>

\* Waitable::Fd(fd, Interest::Read) when the kernel rejects the EV_ADD: the event list
\* has room for one event, so kevent does not fail; it returns Ok(1) at once with an
\* EV_ERROR event for the change in self.events, and no filter is added.  register_read
\* returns Ok(1) and the for loop goes on; Poller::events reads only the event's filter
RegisterRejected ==
  /\ pc = "for" /\ pending # <<>> /\ Head(pending).interest = "Read"
  /\ faults < MaxFaults /\ faults' = faults + 1
  /\ should_wait' = TRUE
  /\ nReg' = nReg + 1
  /\ pending' = Tail(pending)
  /\ events' = <<Head(pending).fd>> /\ evSrc' = "register" /\ evPolled' = FALSE
  /\ UNCHANGED <<dirVars, pollHist, driven, readDone, envVars, open, interest, fut, output,
                 state, buflen, pc, ret, took, everTook, lastRead, kerr, nPoll, nTake,
                 nWait, nUnreg, nRead, bytesRead, bytesReturned, closedRegistered, runs,
                 spurious, calls>>

\* the kernel hands one event to a thread sitting in kevent: a registered descriptor
\* that is readable, or (within MaxSpurious) one that is not
KernelDelivers ==
  \E fd \in interest :
    /\ events' = <<fd>>
    /\ interest' = AfterDelivery(interest, fd)
    /\ \/ ReadReady /\ UNCHANGED spurious
       \/ ~ReadReady /\ spurious < MaxSpurious /\ spurious' = spurious + 1

\* a kevent call of block_on returns with the event in self.events
Deliver(next) ==
  /\ KernelDelivers
  /\ pc' = next
  /\ evSrc' = (IF pc = "register_read" THEN "register" ELSE "wait")
  /\ evPolled' = FALSE
  /\ UNCHANGED <<dirVars, pollHist, driven, readDone, envVars, open, fut, output, state, buflen, should_wait,
                 pending, ret, took, everTook, lastRead, kerr, countVars, nRead,
                 bytesRead, bytesReturned, closedRegistered, runs, faults, calls>>

\* the kernel fails the kevent the thread sits in; rustix leaves the event list empty
Fail(e, next) ==
  /\ faults < MaxFaults
  /\ faults' = faults + 1
  /\ events' = <<>>
  /\ kerr' = e
  /\ pc' = Try(e, next)
  /\ IF Try(e, next) = "idle"
     THEN ReturnErr(e, interest)
     ELSE UNCHANGED <<ret, fut, open, closedRegistered, interest>>
  /\ evSrc' = "none" /\ evPolled' = FALSE
  /\ UNCHANGED <<dirVars, pollHist, driven, readDone, envVars, output, state, buflen, should_wait, pending, took, everTook,
                 lastRead, countVars, nRead, bytesRead, bytesReturned, runs, spurious,
                 calls>>

\* register_read's kevent returns with an event in self.events
RegisterReturn == pc = "register_read" /\ Deliver("for")

\* register_read's kevent, asleep after the change was applied, returns an error
RegisterFail(e) == pc = "register_read" /\ e \notin ChangeErrors /\ Fail(e, "for")

\* Waitable::Fd(fd, Interest::Close): unregister_read(fd)?
Unregister ==
  /\ pc = "for" /\ pending # <<>> /\ Head(pending).interest = "Close"
  /\ \E res \in {KeventDelete(interest, Head(pending).fd)}
              \cup (IF faults < MaxFaults
                    THEN {[err |-> e, reg |-> interest] : e \in KernelErrors}
                    ELSE {}) :
       /\ faults' = IF res.err \in KernelErrors THEN faults + 1 ELSE faults
       /\ kerr' = res.err
       /\ pc' = Try(res.err, "for")
       /\ IF Try(res.err, "for") = "idle"
          THEN ReturnErr(res.err, res.reg)
          ELSE interest' = res.reg /\ UNCHANGED <<ret, fut, open, closedRegistered>>
  /\ nUnreg' = nUnreg + 1
  /\ pending' = Tail(pending)
  /\ UNCHANGED <<dirVars, pollHist, evHist, driven, readDone, envVars, events, output, state, buflen, should_wait, took, everTook,
                 lastRead, nPoll, nTake, nWait, nReg, nRead, bytesRead, bytesReturned,
                 runs, spurious, calls>>

\* the for loop is over: self.events.clear(); match should_wait
Clear ==
  /\ pc = "for" /\ pending = <<>>
  /\ events' = ClearedEvents(events)
  /\ evSrc' = (IF ClearedEvents(events) = <<>> THEN "none" ELSE evSrc)
  /\ evPolled' = (ClearedEvents(events) # <<>> /\ evPolled)
  /\ pc' = AfterClear(should_wait)
  /\ nWait' = IF AfterClear(should_wait) = "wait" THEN nWait + 1 ELSE nWait
  /\ UNCHANGED <<dirVars, pollHist, driven, readDone, envVars, open, interest, fut, output, state, buflen, should_wait,
                 pending, ret, took, everTook, lastRead, kerr, nPoll, nTake, nReg, nUnreg,
                 nRead, bytesRead, bytesReturned, closedRegistered, runs, spurious,
                 faults, calls>>

\* wait's kevent returns with an event in self.events: next iteration
WaitReturn == pc = "wait" /\ Deliver("poll")

\* wait's kevent returns an error
WaitFail(e) == pc = "wait" /\ Fail(e, "poll")

\* should_wait is false: match fut.take()
Take ==
  /\ pc = "take"
  /\ FutureTake
  /\ ret' = BlockOnReturn(TakeResult)
  /\ pc' = IF BlockOnReturn(TakeResult).kind = "Panic" THEN "panicked" ELSE "idle"
  /\ bytesReturned' = bytesReturned + BlockOnReturn(TakeResult).val.n
  /\ readDone' = (readDone \/ (fut = "read" /\ BlockOnReturn(TakeResult).kind = "Ok"))
  /\ DropFuture(interest)
  /\ UNCHANGED <<dirVars, pollHist, evHist, envVars, events, buflen, should_wait, pending, lastRead, kerr, nPoll, driven,
                 nWait, nReg, nUnreg, nRead, bytesRead, runs, spurious, faults, calls>>

(* ---- the Poller's public methods, called by the program itself ---- *)
dirRest == <<pollHist, driven, readDone, envVars, open, fut, output, state, buflen, pc,
             should_wait, pending, ret, took, everTook, lastRead, kerr, countVars, nRead,
             bytesRead, bytesReturned, closedRegistered, runs, calls>>

MayCallPoller == pc = "idle" /\ dpc = "none" /\ direct < MaxDirect

\* poller.register_read(fd): submits the EV_ADD change and sits in kevent, self.events
\* emptied on entering the call
DirectRegister ==
  /\ MayCallPoller /\ open
  /\ interest' = KeventAdd(interest, ClientFd)
  /\ dpc' = "register_read" /\ direct' = direct + 1 /\ dres' = NotCalled
  /\ events' = <<>> /\ evSrc' = "none" /\ evPolled' = FALSE
  /\ UNCHANGED <<dirRest, spurious, faults>>

\* poller.register_read(fd) when the kernel rejects the EV_ADD: Ok(1), the EV_ERROR
\* event in self.events, no filter added
DirectRegisterRejected ==
  /\ MayCallPoller /\ open
  /\ faults < MaxFaults /\ faults' = faults + 1
  /\ direct' = direct + 1 /\ dres' = OkV(1)
  /\ events' = <<ClientFd>> /\ evSrc' = "direct" /\ evPolled' = FALSE
  /\ UNCHANGED <<dirRest, dpc, interest, spurious>>

\* poller.wait(): sits in kevent, self.events emptied on entering the call
DirectWait ==
  /\ MayCallPoller
  /\ dpc' = "wait" /\ direct' = direct + 1 /\ dres' = NotCalled
  /\ events' = <<>> /\ evSrc' = "none" /\ evPolled' = FALSE
  /\ UNCHANGED <<dirRest, interest, spurious, faults>>

\* the kevent of a direct register_read or wait returns Ok(1), the event in self.events
DirectReturn ==
  /\ dpc # "none"
  /\ KernelDelivers
  /\ dpc' = "none" /\ dres' = OkV(1)
  /\ evSrc' = "direct" /\ evPolled' = FALSE
  /\ UNCHANGED <<dirRest, direct, faults>>

\* the kevent of a direct register_read or wait returns an error
DirectFail(e) ==
  /\ dpc # "none" /\ faults < MaxFaults
  /\ dpc = "register_read" => e \notin ChangeErrors
  /\ faults' = faults + 1
  /\ events' = <<>>
  /\ dpc' = "none" /\ dres' = ErrV(e)
  /\ evSrc' = "none" /\ evPolled' = FALSE
  /\ UNCHANGED <<dirRest, direct, interest, spurious>>

\* poller.unregister_read(fd): returns Ok(0), or the error of the EV_DELETE
DirectUnregister ==
  /\ MayCallPoller /\ open
  /\ \E res \in {KeventDelete(interest, ClientFd)}
              \cup (IF faults < MaxFaults
                    THEN {[err |-> e, reg |-> interest] : e \in KernelErrors}
                    ELSE {}) :
       /\ faults' = IF res.err \in KernelErrors THEN faults + 1 ELSE faults
       /\ interest' = res.reg
       /\ dres' = IF res.err = "none" THEN OkV(0) ELSE ErrV(res.err)
  /\ direct' = direct + 1
  /\ UNCHANGED <<dirRest, dpc, evHist, events, spurious>>

(* ---- the peer ---- *)
envRest == <<dirVars, pollHist, evHist, driven, readDone, open, interest, events, fut, output, state, buflen, pc, should_wait,
             pending, ret, took, everTook, lastRead, kerr, countVars, nRead, bytesRead,
             bytesReturned, closedRegistered, runs, spurious, faults, calls>>

DataArrives ==
  /\ open /\ ~eof /\ sockErr = "none" /\ arrived < MaxData
  /\ avail' = avail + 1 /\ arrived' = arrived + 1
  /\ UNCHANGED <<eof, sockErr, envRest>>

PeerCloses ==
  /\ open /\ ~eof /\ sockErr = "none"
  /\ eof' = TRUE
  /\ UNCHANGED <<avail, arrived, sockErr, envRest>>

PeerResets(e) ==
  /\ open /\ ~eof /\ sockErr = "none"
  /\ sockErr' = e
  /\ UNCHANGED <<avail, arrived, eof, envRest>>

Peer == DataArrives \/ PeerCloses \/ (\E e \in SocketErrors : PeerResets(e))

\* the steps of block_on invocations, and of the peer
NextBlockOn ==
  \/ \E len \in 1..MaxBuf : BlockOnRead(len)
  \/ BlockOnDisconnect
  \/ Poll
  \/ Register
  \/ RegisterRejected
  \/ RegisterReturn
  \/ \E e \in KernelErrors : RegisterFail(e)
  \/ Unregister
  \/ Clear
  \/ WaitReturn
  \/ \E e \in KernelErrors : WaitFail(e)
  \/ Take
  \/ Peer

\* the program's own calls of register_read, wait and unregister_read
NextPoller ==
  \/ DirectRegister
  \/ DirectRegisterRejected
  \/ DirectWait
  \/ DirectReturn
  \/ \E e \in KernelErrors : DirectFail(e)
  \/ DirectUnregister

\* a program that calls block_on and, between invocations, the Poller's other methods
Next == NextBlockOn \/ NextPoller

Spec == Init /\ [][Next]_vars

(* ---- a caller that uses the Future trait directly (no block_on) ---- *)
ReadySets == {<<>>, <<Waitable(ClientFd, "Read")>>}

\* client.read(&mut buf)
FutRead(len) == NewFuture("read", len) /\ pc' = pc

\* client.disconnect()
FutDisconnect == NewFuture("close", 0) /\ pc' = pc

\* fut.poll(ready); the returned iterator is kept in `pending` until the next call
FutPoll(ready) ==
  /\ pc = "idle" /\ dpc = "none" /\ fut # "none" /\ calls < MaxCalls
  /\ FuturePoll(ready)
  /\ calls' = calls + 1
  /\ UNCHANGED <<dirVars, evHist, driven, readDone, arrived, open, interest, events, fut, buflen, pc, should_wait, ret, took,
                 everTook, kerr, nTake, nWait, nReg, nUnreg, bytesReturned,
                 closedRegistered, runs, spurious, faults>>

\* fut.take()
FutTake ==
  /\ pc = "idle" /\ dpc = "none" /\ fut # "none" /\ calls < MaxCalls
  /\ FutureTake
  /\ calls' = calls + 1
  /\ pending' = <<>>
  /\ UNCHANGED <<dirVars, pollHist, evHist, driven, readDone, envVars, open, interest, events, fut, buflen, pc, should_wait, ret,
                 lastRead, kerr, nPoll, nWait, nReg, nUnreg, nRead, bytesRead,
                 bytesReturned, closedRegistered, runs, spurious, faults>>

\* drop(fut)
FutDrop ==
  /\ pc = "idle" /\ dpc = "none" /\ fut # "none"
  /\ DropFuture(interest)
  /\ pending' = <<>>
  /\ UNCHANGED <<dirVars, pollHist, evHist, driven, readDone, envVars, events, output, state, buflen, pc, should_wait, ret, took,
                 everTook, lastRead, kerr, countVars, nRead, bytesRead, bytesReturned,
                 runs, spurious, faults, calls>>

NextFuture ==
  \/ \E len \in 1..MaxBuf : FutRead(len)
  \/ FutDisconnect
  \/ \E ready \in ReadySets : FutPoll(ready)
  \/ FutTake
  \/ FutDrop
  \/ Peer

SpecFuture == Init /\ [][NextFuture]_vars

\* a program that uses futures directly and through block_on, one after the other
NextAll == NextBlockOn \/ NextFuture

SpecAll == Init /\ [][NextAll]_vars

\* poller.block_on(f) for a future f the caller has already polled or taken from
BlockOnHeld ==
  /\ pc = "idle" /\ dpc = "none" /\ fut # "none"
  /\ pc' = "poll" /\ driven' = fut
  /\ ret' = RetNone /\ took' = NotCalled /\ lastRead' = NotCalled /\ kerr' = "none"
  /\ nPoll' = 0 /\ nTake' = 0 /\ nWait' = 0 /\ nReg' = 0 /\ nUnreg' = 0 /\ nRead' = 0
  /\ pending' = <<>> /\ should_wait' = FALSE
  /\ lastReady' = <<>> /\ yielded' = <<>> /\ calls' = 0
  /\ UNCHANGED <<dirVars, evHist, envVars, open, interest, events, fut, output, state, buflen,
                 everTook, bytesRead, bytesReturned, closedRegistered, readDone, runs,
                 spurious, faults>>

NextHeld == NextAll \/ BlockOnHeld

SpecHeld == Init /\ [][NextHeld]_vars

\* the thread runs block_on to its next kevent call; the kernel hands over an event
\* once a registered descriptor is readable; the peer eventually sends, closes or resets
Fairness ==
  /\ WF_vars(Poll) /\ WF_vars(Register) /\ WF_vars(Unregister) /\ WF_vars(Clear)
  /\ WF_vars(Take)
  /\ WF_vars(RegisterReturn) /\ WF_vars(WaitReturn)
  /\ WF_vars(Peer)

SpecFair == Init /\ [][Next]_vars /\ Fairness

(***************************************************************************)
(* The claims                                                              *)
(***************************************************************************)
TakeStep == nTake' = nTake + 1
PollStep == nPoll' = nPoll + 1
Looping == pc \in {"poll", "for", "register_read", "wait", "take"}

\* C1 (as claimed): once a take() of a future has returned a populated result, every
\* later take() of that future returns nothing, whatever polls happen in between
C1_ExactlyOnce == [][(everTook /\ TakeStep) => took'.tag = "None"]_vars

\* C2: block_on has returned Ok(v) only where the one take() of the invocation has
\* just returned Some(v); otherwise it is still looping, has returned a Poller error,
\* has aborted, or was never called
C2_NoSpuriousCompletion ==
  /\ ret.kind = "Ok" =>
       /\ pc = "idle" /\ nTake = 1
       /\ took.tag \in {"Ok", "Err", "Unit"}
       /\ ret.val = took
  /\ ret.kind = "Err" => pc = "idle" /\ ret.err = kerr /\ kerr # "none"
  /\ ret.kind = "Panic" => pc = "panicked"
  /\ ret.kind = "None" => Looping \/ runs = 0 \/ fut # "none"

C2_Witness ==
  /\ ret.kind = "Ok" /\ ret.val = OkV(1) /\ took = OkV(1) /\ nWait >= 1 /\ pc = "idle"

\* C3 (as claimed): a descriptor is never closed while the kqueue still holds a
\* filter for it
C3_UnregisterBeforeClose == ~closedRegistered /\ (~open => ClientFd \notin interest)

\* C4 (as claimed): when a read has been driven to completion and the disconnect has
\* then been driven on the same Poller (no kevent call failing for reasons of the
\* kernel's own), the disconnect returned Ok(()) and no filter is left
C4_DisconnectAfterRead ==
  (readDone /\ driven = "close" /\ pc = "idle" /\ fut = "none" /\ faults = 0) =>
    (ret.kind = "Ok" /\ ret.val = UnitV /\ ClientFd \notin interest)

\* C5: a CloseFuture starts Pending; take in Pending returns nothing and stays; the
\* first poll moves Pending to Closed and yields exactly (fd, Close); the first take
\* in Closed returns () and moves to Completed; every other poll yields nothing,
\* every other take returns nothing, and neither changes the state
C5_DisconnectStateMachine ==
  [][/\ (fut # "close" /\ fut' = "close") => state' = "Pending"
     /\ (fut = "close" /\ PollStep) =>
          /\ state = "Pending" =>
               state' = "Closed" /\ pending' = <<Waitable(ClientFd, "Close")>>
          /\ state # "Pending" => state' = state /\ pending' = <<>>
     /\ (fut = "close" /\ TakeStep) =>
          /\ state = "Closed" => state' = "Completed" /\ took' = UnitV
          /\ state # "Closed" => state' = state /\ took' = NoneV
     /\ (fut = "close" /\ fut' = "close") =>
          <<state, state'>> \in {<<"Pending", "Pending">>, <<"Pending", "Closed">>,
                                 <<"Closed", "Closed">>, <<"Closed", "Completed">>,
                                 <<"Completed", "Completed">>}
    ]_vars

C5_Witness == fut = "close" /\ state = "Completed" /\ nPoll >= 2 /\ nTake >= 2

\* C6 (as claimed): the thread sits in a kevent call with no event to return only
\* inside wait()
C6_SoleBlockingPoint ==
  (pc \in {"register_read", "wait"} /\ ~(ClientFd \in interest /\ ReadReady)) => pc = "wait"

\* C7: when block_on(read) has returned Ok(r), r is the outcome of the last read
\* attempt, which is the only attempt of the invocation that did not would-block;
\* and every byte a read attempt consumed is either reported by a returned Ok(n)
\* or held in the output of the future being driven
C7_ResultThreading ==
  /\ (driven = "read" /\ ret.kind = "Ok") =>
       /\ ret.val = lastRead
       /\ lastRead.tag \in {"Ok", "Err"}
       /\ nRead = 1
  /\ bytesRead = bytesReturned + (IF fut = "read" THEN output.n ELSE 0)

C7_Witness ==
  /\ driven = "read" /\ ret.kind = "Ok" /\ ret.val = OkV(1) /\ nPoll >= 2
  /\ bytesRead = 2 /\ bytesReturned = 2

\* C8: a poll of a ReadFuture with no stored result, on a stream with nothing to
\* read, yields exactly (fd, Read), stores no result, and a take() after it returns
\* nothing; would-block is never a stored or taken result, nor what block_on returns
C8_WouldBlockRoundTrip ==
  /\ [][(fut = "read" /\ PollStep /\ output = NoneV /\ ~ReadReady) =>
          /\ pending' = <<Waitable(ClientFd, "Read")>>
          /\ output' = NoneV
          /\ TakeResult' = NoneV]_vars
  /\ [](/\ output.tag # "WouldBlock" /\ took.tag # "WouldBlock"
        /\ ret.val.tag # "WouldBlock" /\ ret.err \in KernelErrors \cup {"ENOENT", "none"})

C8_Witness ==
  /\ fut = "read" /\ lastRead = WouldBlock /\ took = NoneV /\ nTake = 1 /\ nPoll = 1
  /\ pc = "idle"

\* C9: after a read attempt of ReadFuture::poll failed with a non-would-block error e,
\* poll yielded no waitable and stored Err(e); that iteration registers nothing and
\* does not wait; take() returns Err(e) and block_on returns Ok(Err(e))
C9_ReadErrorIsResult ==
  (driven = "read" /\ lastRead.tag = "Err") =>
    /\ lastRead.e \in SocketErrors
    /\ pending = <<>> /\ ~should_wait
    /\ nReg = nPoll - 1 /\ nWait = nPoll - 1
    /\ \/ pc \in {"for", "take"} /\ output = lastRead /\ ret.kind = "None"
       \/ pc = "idle" /\ took = lastRead /\ ret = [kind |-> "Ok", val |-> lastRead, err |-> "none"]

C9_Witness ==
  /\ driven = "read" /\ pc = "idle" /\ nWait >= 1
  /\ ret = [kind |-> "Ok", val |-> ErrV("ECONNRESET"), err |-> "none"]

\* C10: when register_read, unregister_read or wait has returned an OS error e,
\* block_on has returned Err(e) in that very step: no retry, no further poll, no take
C10_ReactorErrorsFatal ==
  /\ kerr # "none" =>
       /\ pc = "idle" /\ fut = "none"
       /\ ret = RetErr(kerr)
       /\ nTake = 0
  /\ (Looping /\ nPoll > 0) =>
       /\ nReg + nUnreg <= nPoll
       /\ nWait <= nReg

C10_Witness ==
  /\ kerr = "EINTR" /\ ret = RetErr("EINTR") /\ nWait = 1 /\ nPoll = 1 /\ pc = "idle"

HasRead(ws) == \E i \in DOMAIN ws : ws[i].interest = "Read"

\* C11: when poll() yielded no waitable and take() returns nothing, block_on clears
\* the buffer, calls take() and panics in that iteration: no wait(), no further
\* poll(), no Ok and no Err; nothing of block_on runs after the panic
C11_InconsistencyAborts ==
  /\ [][(pc = "for" /\ yielded = <<>> /\ TakeResult = NoneV /\ pc' # pc) =>
          (pc' = "take" /\ nWait' = nWait /\ nPoll' = nPoll /\ ret' = RetNone)]_vars
  /\ [][(pc = "take" /\ TakeResult = NoneV /\ pc' # pc) =>
          /\ pc' = "panicked" /\ ret'.kind = "Panic"
          /\ nWait' = nWait /\ nPoll' = nPoll /\ kerr' = "none"]_vars
  /\ [][pc = "panicked" =>
          (pc' = "panicked" /\ ret' = ret /\ nPoll' = nPoll /\ nWait' = nWait
           /\ nTake' = nTake)]_vars

C11_Witness ==
  /\ pc = "panicked" /\ ret.kind = "Panic" /\ driven = "close" /\ nPoll = 1 /\ nTake = 1
  /\ nWait = 0 /\ took = NoneV

\* C12 (as claimed): the events block_on passes to a poll() are empty on the first
\* poll() of an invocation and otherwise were delivered by the wait() just before
\* and have not been passed to a poll() yet
C12_NoStaleReadiness ==
  [][(pc = "poll" /\ pc' = "for") =>
       /\ lastReady' = EventsAsWaitables(events)
       /\ nPoll = 0 => events = <<>>
       /\ events # <<>> => (evSrc = "wait" /\ ~evPolled /\ nWait = nPoll)]_vars

\* C13 (as claimed): after a read attempt that would-blocked, block_on has neither returned nor
\* failed: it requests Read interest again and waits again; and, the peer eventually
\* sending, closing or resetting and the kernel delivering readiness, every
\* block_on of a read future returns
C13_SpuriousWakeupsTolerated ==
  /\ []((driven = "read" /\ lastRead = WouldBlock /\ pc # "idle") =>
          /\ ret = RetNone
          /\ pc \in {"for", "register_read", "wait", "poll"}
          /\ pc = "for" => (should_wait \/ pending = <<Waitable(ClientFd, "Read")>>)
          /\ pc \in {"register_read", "wait", "poll"} => (nReg = nPoll /\ ClientFd \in interest))
  /\ ((fut = "read" /\ Looping) ~> (pc = "idle"))

\* C14 (as claimed): once a wait() has delivered an event for a registered
\* descriptor, the descriptor is no longer in the interest set, and none is left
\* when block_on(read) has returned
C14_SingleShot ==
  /\ (pc = "poll" /\ evSrc = "wait" /\ events # <<>>) => events[1] \notin interest
  /\ (driven = "read" /\ pc = "idle" /\ ret.kind = "Ok") => ClientFd \notin interest

\* C14 (amended): a Read registration stays in the interest set after its events
\* were delivered; it leaves only by unregister_read (of block_on or called
\* directly) or when the descriptor is closed, so a block_on(read) that registered
\* returns with the filter still there: a register_read whose EV_ADD the kernel takes
\* puts the descriptor in the set, and during a block_on(read) a descriptor in the set
\* stays there up to and through the return
C14_RegistrationPersists ==
  /\ [][(ClientFd \in interest /\ ClientFd \notin interest') =>
          (nUnreg' = nUnreg + 1 \/ ~open' \/ (direct' = direct + 1 /\ dres' = OkV(0)))]_vars
  /\ [][(pc = "for" /\ pc' = "register_read") => Head(pending).fd \in interest']_vars
  /\ [][(driven = "read" /\ Looping /\ ClientFd \in interest) => ClientFd \in interest']_vars
  /\ [][(driven = "read" /\ pc # "idle" /\ pc' = "idle" /\ nReg >= 1 /\ faults' = 0) =>
          ClientFd \in interest']_vars

C14_Witness ==
  /\ driven = "read" /\ pc = "idle" /\ ret.kind = "Ok" /\ nWait >= 1
  /\ ClientFd \in interest

\* C15 (as claimed): register_read is never called for a descriptor that is already
\* in the interest set
C15_NoDoubleRegistration ==
  [][(pc = "for" /\ pc' = "register_read") => Head(pending).fd \notin interest]_vars

\* C16: after the for loop block_on calls wait() exactly when the poll() of the
\* iteration yielded a Read waitable and take() exactly when it did not; a Close
\* waitable makes one unregister_read call and by itself neither a wait() nor a
\* register_read
C16_BlockIffRead ==
  [][/\ (pc = "for" /\ pending = <<>> /\ pc' # pc) =>
          /\ (pc' = "wait") <=> HasRead(yielded)
          /\ (pc' = "take") <=> ~HasRead(yielded)
     /\ (nWait' = nWait + 1) => (HasRead(yielded) /\ pc' = "wait")
     /\ (TakeStep /\ pc = "take") => ~HasRead(yielded)
     /\ (pc = "for" /\ pending # <<>> /\ Head(pending).interest = "Close"
         /\ pending' # pending) =>
          /\ nUnreg' = nUnreg + 1 /\ nReg' = nReg /\ nWait' = nWait
          /\ should_wait' = should_wait
    ]_vars

C16_Witness ==
  /\ driven = "close" /\ pc = "idle" /\ ret.kind = "Ok" /\ nUnreg = 1 /\ nWait = 0
  /\ nTake = 1 /\ readDone

\* C17 (as claimed): wait() and poll() calls alternate, and the content of
\* self.events is never cleared or overwritten before it was passed to a poll()
C17_PollWaitAlternation ==
  /\ [][(events # <<>>
          /\ (events' = <<>> \/ (pc \in {"register_read", "wait"} /\ pc' # pc))) =>
         evPolled]_vars
  /\ [](nWait <= nPoll /\ nPoll <= nWait + 1)

\* C18 (as claimed): whenever block_on is inside wait(), the interest set holds the (fd, Read)
\* pair the poll() of this iteration asked for
C18_NeverWaitsOnEmptySet ==
  pc = "wait" =>
    /\ interest # {}
    /\ \E i \in DOMAIN yielded :
         yielded[i].interest = "Read" /\ yielded[i].fd \in interest

\* C19 (as claimed): a block_on of a fresh CloseFuture that has ended (no kevent call
\* failing for reasons of the kernel's own) made one poll(), one unregister_read, no
\* register_read, no wait() and one take(), and the descriptor was closed after them
C19_DisconnectOneIteration ==
  (driven = "close" /\ pc = "idle" /\ fut = "none" /\ faults = 0) =>
    /\ nPoll = 1 /\ nUnreg = 1 /\ nReg = 0 /\ nWait = 0 /\ nTake = 1
    /\ ~open /\ ret.kind = "Ok"

\* what poll(ready) of the future in hand would store and return
PollOutcome(ready) ==
  LET r == ReadAttempt(ready) IN
  [read |-> IF fut = "read" THEN r ELSE lastRead,
   output |-> IF fut = "read" THEN ReadPollOutput(output, r) ELSE output,
   state |-> IF fut = "close" THEN ClosePollState(state) ELSE state,
   waitables |-> PollWaitables(r)]

\* C20: whatever `ready` a poll() is called with, it returns and stores what it
\* would with any other `ready`; a ReadFuture attempts the read on every poll()
C20_PollIgnoresReady ==
  [][(fut # "none" /\ PollStep) =>
       /\ \A ready \in ReadySets :
            /\ pending' = PollOutcome(ready).waitables
            /\ output' = PollOutcome(ready).output
            /\ state' = PollOutcome(ready).state
            /\ lastRead' = PollOutcome(ready).read
       /\ fut = "read" => lastRead' = SockRead(avail, sockErr, eof, buflen)]_vars

C20_Witness ==
  /\ fut = "read" /\ nPoll = 2 /\ lastReady = <<>> /\ lastRead = OkV(1) /\ output = OkV(1)
  /\ pc = "idle"

====
